---- MODULE Spec2Model ----
(***************************************************************************)
(* A model of the suspend/resume dialog core of genkit-interrupts:         *)
(*   RunAgent                                                              *)
(*   InterruptionHandler.handleResponse     (interruption_handler.go)      *)
(*   ConversationLoopHandler.handleResponse (conversation_loop_handler.go) *)
(* The Generator (Generate, LookupTool, GenerateBool), the Interaction     *)
(* function and the context are external collaborators: every result they  *)
(* can hand back is a nondeterministic choice.                             *)
(* The console implementation of the Interaction function, TerminalReader  *)
(* (terminal-question.go), is modelled on its own in SpecConsole, and the  *)
(* Resolution Loop on arbitrary payloads in SpecPayload.                   *)
(***************************************************************************)
EXTENDS Integers, Sequences, FiniteSets, TLC

\* Bounds of the model.
MaxGen == 2         \* generation calls in one dialog
MaxInterrupts == 2  \* Pending Requests carried by one response

Nil == "nil"        \* the nil error

----------------------------------------------------------------------------
(* Untyped payloads (map[string]any) and their decoding.                   *)

JStr(s) == [t |-> "string", s |-> s]
JNum == [t |-> "number", s |-> ""]
JNull == [t |-> "null", s |-> ""]
JAbsent == [t |-> "absent", s |-> ""]

JList(l) == [t |-> "list", l |-> l]
JNoList(t) == [t |-> t, l |-> <<>>]

\* input any: a key-value map with the entries "question" and "choices",
\* or a value that is no map at all.
MapInput(q, c) == [map |-> TRUE, question |-> q, choices |-> c]
NotAMap == [map |-> FALSE, question |-> JAbsent, choices |-> JNoList("absent")]

QuestionInput(q, c) == [Question |-> q, Choices |-> c]
ZeroQuestionInput == QuestionInput("", <<>>)

\* json.Unmarshal into a string field: an absent key or a null leaves the
\* zero value, a string is copied, anything else is a type error.
StringFieldOk(j) == j.t \in {"absent", "null", "string"}
StringField(j) == IF j.t = "string" THEN j.s ELSE ""

\* Mutant: the list is decoded back to front.
ListFieldReversed(j) ==
    IF j.t = "list"
    THEN [i \in 1..Len(j.l) |-> StringField(j.l[Len(j.l) + 1 - i])]
    ELSE <<>>

\* json.Unmarshal into a []string field.
ListFieldOk(j) ==
    \/ j.t \in {"absent", "null"}
    \/ j.t = "list" /\ \A i \in 1..Len(j.l) : StringFieldOk(j.l[i])
ListField(j) ==
    IF j.t = "list" THEN [i \in 1..Len(j.l) |-> StringField(j.l[i])] ELSE <<>>

getQuestionInput(input) ==
    IF ~input.map
    THEN [err |-> "unexpected input type", value |-> ZeroQuestionInput]
    ELSE IF ~(StringFieldOk(input.question) /\ ListFieldOk(input.choices))
    THEN [err |-> "failed to unmarshal input", value |-> ZeroQuestionInput]
    ELSE [err |-> Nil,
          value |-> QuestionInput(StringField(input.question),
                                  ListField(input.choices))]

----------------------------------------------------------------------------
(* Responses.                                                              *)

\* One interrupted tool request of a response.
Part(ref, input) == [ref |-> ref, input |-> input]

Response(id, fr, text, interrupts, request) ==
    [id |-> id, FinishReason |-> fr, text |-> text,
     interrupts |-> interrupts, request |-> request]

\* The nil *ai.ModelResponse.
NoResponse == Response(-1, "", "", <<>>, <<>>)

\* response.History(): the messages of the request followed by the
\* response's own message.
History(r) == Append(r.request, r.id)

\* response.Interrupts()
Interrupts(r) == r.interrupts

\* response.Text()
Text(r) == r.text

\* askQuestion.Respond(part, answer, nil)
Respond(part, answer) == [request |-> part, output |-> answer]

\* The payloads the engine puts into Pending Requests: well-formed questions
\* and one that does not decode.
Q1 == MapInput(JStr("What gender?"), JList(<<JStr("Boy"), JStr("Girl")>>))
Q2 == MapInput(JStr("Budget?"), JNoList("absent"))
BadQ == MapInput(JNum, JNoList("absent"))
GoodQ(i) == IF i % 2 = 1 THEN Q1 ELSE Q2

\* The lists of Pending Requests of a suspended response: up to MaxInterrupts
\* requests, of which at most one (bad = 0: none) does not decode.
InterruptLists ==
    {[i \in 1..k |-> Part(i, IF i = bad THEN BadQ ELSE GoodQ(i))] :
         k \in 0..MaxInterrupts, bad \in 0..MaxInterrupts}

\* The text of a response: every finished response has a text of its own, a
\* suspended one has none.
TextOf(id) == "Answer " \o ToString(id)

\* Every response a generation call (or a caller) can produce.
Responses(id, request) ==
    {Response(id, "stop", TextOf(id), <<>>, request)}
    \cup {Response(id, "interrupted", "", l, request) : l \in InterruptLists}

\* What the human can answer to a question: one of its choices, or a free
\* text when it has none.
RangeOf(seq) == {seq[i] : i \in 1..Len(seq)}
Answers(input) ==
    IF input.Choices # <<>> THEN RangeOf(input.Choices) ELSE {"User Answer"}

----------------------------------------------------------------------------
(* State.                                                                  *)

VARIABLES
    pc,         \* position of the dialog's single thread of control
    entry,      \* the function the caller invoked: "RunAgent", "Resolution", "Completion"
    handler,    \* Options.responseHandler: "none", "interruption", "conversation"
    toolNames,  \* Options.toolNames
    tools,      \* the tool names the Generator can resolve
    cancelled,  \* ctx.Done() is closed
    raResp,     \* RunAgent's response
    clResp,     \* ConversationLoopHandler.handleResponse's response
    ihResp,     \* InterruptionHandler.handleResponse's response
    answers,    \* the answers collected in the current round
    idx,        \* position of the range loop over response.Interrupts()
    raRet,      \* what RunAgent returned
    clRet,      \* what ConversationLoopHandler.handleResponse returned
    ihRet,      \* what InterruptionHandler.handleResponse returned (last call)
    genCalls,   \* record of the Generate calls, in order
    askCalls,   \* record of the UserInteraction calls, in order
    boolCalls,  \* record of the GenerateBool calls, in order
    ihCalls     \* record of the calls of InterruptionHandler.handleResponse

\* The console boundary (terminal-question.go): one TerminalReader, its
\* readLoop goroutine and the Interactor calls made on it.
VARIABLES
    stdin,      \* the lines typed on the terminal and not yet read
    readLoop,   \* position of the readLoop goroutine
    sending,    \* the Response readLoop is sending on inputCh
    readerDone, \* Done() of the context given to NewTerminalReader is closed
    callDone,   \* Done() of the context given to Interactor is closed
    sameCtx,    \* Interactor is called with the context of the reader
    interactor, \* position of the current Interactor call
    waited,     \* seconds the current Interactor call's ticker has run
    readLog,    \* record of the lines readLoop has read, in order
    trCalls     \* record of the Interactor calls, in order

dialogVars == <<pc, entry, handler, toolNames, tools, cancelled, raResp,
                clResp, ihResp, answers, idx, raRet, clRet, ihRet, genCalls,
                askCalls, boolCalls, ihCalls>>

terminalVars == <<stdin, readLoop, sending, readerDone, callDone, sameCtx,
                  interactor, waited, readLog, trCalls>>

vars == <<dialogVars, terminalVars>>

\* The sets of tools registered with the Generator, and the tool-name lists of
\* the options.
ToolSets == {{}, {"other"}, {"askQuestion", "other"}}
ToolNameLists == {<<>>, <<"askQuestion">>, <<"other", "askQuestion">>}

validationPrompt == "Is finished?"
userPrompt == "Help with gifts"
systemPrompt == "Be helpful"

NotReturned == [done |-> FALSE, resp |-> NoResponse, err |-> Nil]
Returned(resp, err) == [done |-> TRUE, resp |-> resp, err |-> err]
RaNotReturned == [done |-> FALSE, text |-> "", err |-> Nil]
RaReturned(text, err) == [done |-> TRUE, text |-> text, err |-> err]

\* generator.LookupTool(name) # nil
LookupTool(name) == name \in tools

ToolNotFound(name) ==
    IF name = "askQuestion" THEN "askQuestion tool not found"
    ELSE "other tool not found"

\* ctx.Err() once ctx.Done() is closed
CtxErr == "context canceled"

\* ai.WithPrompt(text, args...)
WithPrompt(text, args) == [text |-> text, args |-> args]
NoPrompt == WithPrompt("", <<>>)

\* The errors the collaborators can hand back.
GenerateErrors == {"generation failed"}
InteractionErrors ==
    IF cancelled THEN {CtxErr} ELSE {"Response was not provided in time"}

\* One Generate call as the Generator sees it, with the state of the context
\* and the number of collaborator calls made before it.
GenerateCall(by, messages, toolRefs, toolResponses, prompt, system) ==
    [by |-> by, messages |-> messages, tools |-> toolRefs,
     answers |-> toolResponses, prompt |-> prompt, system |-> system,
     asked |-> Len(askCalls), bools |-> Len(boolCalls),
     cancelled |-> cancelled, err |-> Nil, result |-> NoResponse]

\* The outcomes of the next Generate call: an error, or a response whose request
\* holds the messages the call carried.
GenerateOutcomes(call) ==
    {[err |-> e, resp |-> NoResponse] : e \in GenerateErrors}
    \cup {[err |-> Nil, resp |-> r] :
          r \in Responses(Len(genCalls) + 1, call.messages)}

\* The record of the Generate calls with one more call and its outcome.
Logged(call, out) ==
    Append(genCalls, [call EXCEPT !.err = out.err, !.result = out.resp])

----------------------------------------------------------------------------
(* Who is waiting for a handler to return.                                 *)

InCompletion ==
    entry = "Completion" \/ (entry = "RunAgent" /\ handler = "conversation")

IhReturnPc ==
    IF InCompletion THEN "cl_after_ih"
    ELSE IF entry = "RunAgent" THEN "ra_after_handler" ELSE "done"

ClReturnPc == IF entry = "RunAgent" THEN "ra_after_handler" ELSE "done"

IhReturn(resp, err) ==
    /\ ihRet' = Returned(resp, err)
    /\ pc' = IhReturnPc

ClReturn(resp, err) ==
    /\ clRet' = Returned(resp, err)
    /\ pc' = ClReturnPc

RaReturn(text, err) ==
    /\ raRet' = RaReturned(text, err)
    /\ pc' = "done"

----------------------------------------------------------------------------
(* The console boundary: TerminalReader (terminal-question.go).            *)
(* A line is a sequence of characters; readLoop and the Interactor calls   *)
(* are goroutines that meet on the unbuffered channel inputCh.             *)

MaxLines == 2   \* lines (or an end of input) typed on the terminal
MaxAsks == 2    \* Interactor calls made on one TerminalReader

\* time.NewTicker(30 * time.Second)
TickerSeconds == 30

TimeoutErr == "Response was not provided in time"
EofErr == "EOF"

\* unicode.IsSpace on the characters that occur in the lines.
WhiteSpace == {" ", "\t", "\n"}

RECURSIVE TrimLeft(_)
TrimLeft(s) ==
    IF s # <<>> /\ Head(s) \in WhiteSpace THEN TrimLeft(Tail(s)) ELSE s

RECURSIVE TrimRight(_)
TrimRight(s) ==
    IF s # <<>> /\ s[Len(s)] \in WhiteSpace
    THEN TrimRight(SubSeq(s, 1, Len(s) - 1))
    ELSE s

\* strings.TrimSpace
TrimSpace(s) == TrimRight(TrimLeft(s))

\* What reader.ReadString('\n') can return: a line up to and including its
\* line end.
Lines == {<<"\n">>, <<" ", "\t", "\n">>, <<" ", "a", " ", "b", " ", "\n">>}

\* Response{Value, Err}, with the position in readLog of the line it was
\* made of.
InputResponse(value, err, line) == [Value |-> value, Err |-> err, line |-> line]
NoInput == InputResponse(<<>>, Nil, 0)

\* The latest Interactor call, if it has timed out (0: none has, or a call is
\* waiting).
TimedOutCall ==
    IF /\ trCalls # <<>>
       /\ trCalls[Len(trCalls)].done
       /\ trCalls[Len(trCalls)].by = "timeout"
    THEN Len(trCalls)
    ELSE 0

\* One line on the terminal, with the timed-out call after which it was
\* typed.
Typed(eof, raw) == [eof |-> eof, raw |-> raw, after |-> TimedOutCall]

StdinClosed ==
    \/ \E i \in 1..Len(stdin) : stdin[i].eof
    \/ \E i \in 1..Len(readLog) : readLog[i].eof

\* A line arrives on the source; lines can still arrive after a read has
\* failed.
TypeLine ==
    /\ Len(stdin) + Len(readLog) < MaxLines
    /\ \E l \in Lines : stdin' = Append(stdin, Typed(FALSE, l))
    /\ UNCHANGED <<readLoop, sending, readerDone, callDone, sameCtx,
                   interactor, waited, readLog, trCalls>>
    /\ UNCHANGED dialogVars

\* The terminal's input ends.
TypeEof ==
    /\ ~StdinClosed
    /\ Len(stdin) + Len(readLog) < MaxLines
    /\ stdin' = Append(stdin, Typed(TRUE, <<>>))
    /\ UNCHANGED <<readLoop, sending, readerDone, callDone, sameCtx,
                   interactor, waited, readLog, trCalls>>
    /\ UNCHANGED dialogVars

\* One Interactor call as it starts.
TrCall ==
    [done |-> FALSE, by |-> "", Value |-> <<>>, Err |-> Nil, line |-> 0,
     waited |-> 0, ctxDone |-> FALSE, held |-> FALSE]

\* The current Interactor call returns (res.Value, res.Err), resolved by the
\* event by after secs seconds, its context being cancelled or not and
\* readLoop holding a Response to send or not.
Resolved(by, res, secs, ctxDone) ==
    [trCalls EXCEPT ![Len(trCalls)] =
        [@ EXCEPT !.done = TRUE, !.by = by, !.Value = res.Value,
                  !.Err = res.Err, !.line = res.line, !.waited = secs,
                  !.ctxDone = ctxDone,
                  !.held = readLoop \in {"select", "parked"}]]

Cancellation == InputResponse(<<>>, CtxErr, 0)
Timeout == InputResponse(<<>>, TimeoutErr, 0)

\* for { select { case <-ctx.Done(): return; default: } ...
RdLoop ==
    /\ readLoop = "loop"
    /\ readLoop' = IF readerDone THEN "exit" ELSE "read"
    /\ UNCHANGED <<stdin, sending, readerDone, callDone, sameCtx, interactor,
                   waited, readLog, trCalls>>
    /\ UNCHANGED dialogVars

\* One line of readLog: the sentence made of the line read, whether the
\* reader asked again, and the Interactor call that was waiting (0: none).
ReadEntry(typed, sentence, again) ==
    [eof |-> typed.eof, after |-> typed.after, sentence |-> sentence,
     again |-> again,
     asked |-> IF interactor # "idle" THEN Len(trCalls) ELSE 0]

\* Mutant: an empty sentence is sent like any other.
RdReadSendsEmpty ==
    /\ readLoop = "read"
    /\ stdin # <<>>
    /\ LET typed == Head(stdin)
           sentence == TrimSpace(typed.raw)
       IN  /\ stdin' = Tail(stdin)
           /\ readLog' = Append(readLog, ReadEntry(typed, sentence, FALSE))
           /\ sending' = InputResponse(sentence,
                             IF typed.eof THEN EofErr ELSE Nil,
                             Len(readLog) + 1)
           /\ readLoop' = "select"
    /\ UNCHANGED <<readerDone, callDone, sameCtx, interactor, waited,
                   trCalls>>
    /\ UNCHANGED dialogVars

\* stdInput, err := reader.ReadString('\n') returns: a read error is to be
\* sent, an empty sentence makes the reader ask again, any other sentence is
\* to be sent.
RdRead ==
    /\ readLoop = "read"
    /\ stdin # <<>>
    /\ LET typed == Head(stdin)
           sentence == TrimSpace(typed.raw)
       IN  /\ stdin' = Tail(stdin)
           /\ IF typed.eof
              THEN /\ readLog' = Append(readLog, ReadEntry(typed, <<>>, FALSE))
                   /\ sending' = InputResponse(<<>>, EofErr, Len(readLog) + 1)
                   /\ readLoop' = "select"
              ELSE IF sentence = <<>>
              THEN /\ readLog' = Append(readLog, ReadEntry(typed, sentence, TRUE))
                   /\ readLoop' = "loop"
                   /\ UNCHANGED sending
              ELSE /\ readLog' = Append(readLog, ReadEntry(typed, sentence, FALSE))
                   /\ sending' = InputResponse(sentence, Nil, Len(readLog) + 1)
                   /\ readLoop' = "select"
    /\ UNCHANGED <<readerDone, callDone, sameCtx, interactor, waited,
                   trCalls>>
    /\ UNCHANGED dialogVars

\* Mutant: readLoop goes on reading after it has sent a read error.
AfterSendKeepsReading == "loop"

\* Where readLoop goes after its send was taken: return after an error, the
\* head of the loop after a sentence.
AfterSend == IF sending.Err # Nil THEN "exit" ELSE "loop"

\* readLoop reaches select { case tr.inputCh <- ...: case <-ctx.Done(): }: the
\* send can proceed when an Interactor call is parked in its select, the
\* other case when the context is cancelled; one of the cases that can
\* proceed is chosen, and with none the goroutine parks.
RdSelect ==
    /\ readLoop = "select"
    /\ \/ /\ interactor = "parked"
          /\ trCalls' = Resolved("input", sending, waited, callDone)
          /\ interactor' = "idle"
          /\ readLoop' = AfterSend
          /\ sending' = NoInput
       \/ /\ readerDone
          /\ readLoop' = "exit"
          /\ sending' = NoInput
          /\ UNCHANGED <<interactor, trCalls>>
       \/ /\ interactor # "parked"
          /\ ~readerDone
          /\ readLoop' = "parked"
          /\ UNCHANGED <<sending, interactor, trCalls>>
    /\ UNCHANGED <<stdin, readerDone, callDone, sameCtx, waited, readLog>>
    /\ UNCHANGED dialogVars

\* Interactor is called: the question is printed and the ticker made.
TrInteractor ==
    /\ interactor = "idle"
    /\ Len(trCalls) < MaxAsks
    /\ trCalls' = Append(trCalls, TrCall)
    /\ waited' = 0
    /\ interactor' = "select"
    /\ UNCHANGED <<stdin, readLoop, sending, readerDone, callDone, sameCtx,
                   readLog>>
    /\ UNCHANGED dialogVars

\* The Interactor call reaches its select: ctx.Done() can proceed when the
\* context is cancelled, ticker.C when the ticker has fired, the receive when
\* readLoop is parked in its send; one of the cases that can proceed is
\* chosen, and with none the call parks.
TrSelect ==
    /\ interactor = "select"
    /\ \/ /\ callDone
          /\ trCalls' = Resolved("cancel", Cancellation, waited, callDone)
          /\ interactor' = "idle"
          /\ UNCHANGED <<readLoop, sending>>
       \/ /\ waited = TickerSeconds
          /\ trCalls' = Resolved("timeout", Timeout, waited, callDone)
          /\ interactor' = "idle"
          /\ UNCHANGED <<readLoop, sending>>
       \/ /\ readLoop = "parked"
          /\ trCalls' = Resolved("input", sending, waited, callDone)
          /\ interactor' = "idle"
          /\ readLoop' = AfterSend
          /\ sending' = NoInput
       \/ /\ ~callDone
          /\ waited # TickerSeconds
          /\ readLoop # "parked"
          /\ interactor' = "parked"
          /\ UNCHANGED <<readLoop, sending, trCalls>>
    /\ UNCHANGED <<stdin, readerDone, callDone, sameCtx, waited, readLog>>
    /\ UNCHANGED dialogVars

\* Time passes up to the next tick of the ticker, TickerSeconds after it was
\* made: the tick wakes a parked call.
Tick ==
    /\ interactor # "idle"
    /\ waited < TickerSeconds
    /\ waited' = TickerSeconds
    /\ IF interactor = "parked"
       THEN /\ trCalls' = Resolved("timeout", Timeout, TickerSeconds, callDone)
            /\ interactor' = "idle"
       ELSE UNCHANGED <<interactor, trCalls>>
    /\ UNCHANGED <<stdin, readLoop, sending, readerDone, callDone, sameCtx,
                   readLog>>
    /\ UNCHANGED dialogVars

\* Mutant: the send of readLoop has no ctx.Done() case, so that a parked
\* readLoop stays parked when the context is cancelled.
CancelReaderLeavesReader ==
    /\ ~readerDone
    /\ readerDone' = TRUE
    /\ IF sameCtx
       THEN /\ callDone' = TRUE
            /\ IF interactor = "parked"
               THEN /\ trCalls' = Resolved("cancel", Cancellation, waited, TRUE)
                    /\ interactor' = "idle"
               ELSE UNCHANGED <<interactor, trCalls>>
       ELSE UNCHANGED <<callDone, interactor, trCalls>>
    /\ UNCHANGED <<stdin, readLoop, sending, sameCtx, waited, readLog>>
    /\ UNCHANGED dialogVars

\* The context of the reader is cancelled: a parked readLoop wakes up and
\* returns. When the calls share that context, a parked call wakes up too.
CancelReader ==
    /\ ~readerDone
    /\ readerDone' = TRUE
    /\ IF readLoop = "parked"
       THEN readLoop' = "exit" /\ sending' = NoInput
       ELSE UNCHANGED <<readLoop, sending>>
    /\ IF sameCtx
       THEN /\ callDone' = TRUE
            /\ IF interactor = "parked"
               THEN /\ trCalls' = Resolved("cancel", Cancellation, waited, TRUE)
                    /\ interactor' = "idle"
               ELSE UNCHANGED <<interactor, trCalls>>
       ELSE UNCHANGED <<callDone, interactor, trCalls>>
    /\ UNCHANGED <<stdin, sameCtx, waited, readLog>>
    /\ UNCHANGED dialogVars

\* The context of the calls, when it is one of their own, is cancelled: a
\* parked call wakes up.
CancelCall ==
    /\ ~sameCtx
    /\ ~callDone
    /\ callDone' = TRUE
    /\ IF interactor = "parked"
       THEN /\ trCalls' = Resolved("cancel", Cancellation, waited, TRUE)
            /\ interactor' = "idle"
       ELSE UNCHANGED <<interactor, trCalls>>
    /\ UNCHANGED <<stdin, readLoop, sending, readerDone, sameCtx, waited,
                   readLog>>
    /\ UNCHANGED dialogVars

\* No TerminalReader exists.
NoConsole ==
    /\ stdin = <<>>
    /\ readLoop = "exit"
    /\ sending = NoInput
    /\ readerDone = FALSE
    /\ callDone = FALSE
    /\ sameCtx = TRUE
    /\ interactor = "idle"
    /\ waited = 0
    /\ readLog = <<>>
    /\ trCalls = <<>>

\* No dialog is running.
NoDialog ==
    /\ pc = "done"
    /\ entry = "Console"
    /\ handler = "none"
    /\ toolNames = <<>>
    /\ tools = {}
    /\ cancelled = FALSE
    /\ raResp = NoResponse
    /\ clResp = NoResponse
    /\ ihResp = NoResponse
    /\ answers = <<>>
    /\ idx = 1
    /\ raRet = RaNotReturned
    /\ clRet = NotReturned
    /\ ihRet = NotReturned
    /\ genCalls = <<>>
    /\ askCalls = <<>>
    /\ boolCalls = <<>>
    /\ ihCalls = <<>>

\* NewTerminalReader(ctx, r): the channel is made and readLoop started.
InitConsole ==
    /\ NoDialog
    /\ stdin = <<>>
    /\ readLoop = "loop"
    /\ sending = NoInput
    /\ readerDone = FALSE
    /\ callDone = FALSE
    /\ sameCtx \in BOOLEAN
    /\ interactor = "idle"
    /\ waited = 0
    /\ readLog = <<>>
    /\ trCalls = <<>>

NextConsole ==
    \/ TypeLine \/ TypeEof
    \/ RdLoop \/ RdRead \/ RdSelect
    \/ TrInteractor \/ TrSelect \/ Tick
    \/ CancelReader \/ CancelCall

SpecConsole == InitConsole /\ [][NextConsole]_vars

----------------------------------------------------------------------------
(* Initial states: the caller invokes RunAgent, or one of the two handlers *)
(* directly with a response of its own.                                    *)

InitCommon ==
    /\ cancelled \in BOOLEAN
    /\ answers = <<>>
    /\ idx = 1
    /\ raRet = RaNotReturned
    /\ clRet = NotReturned
    /\ ihRet = NotReturned
    /\ genCalls = <<>>
    /\ askCalls = <<>>
    /\ boolCalls = <<>>

InitRunAgent ==
    /\ entry = "RunAgent"
    /\ pc = "ra_start"
    /\ handler \in {"none", "interruption", "conversation"}
    /\ toolNames \in ToolNameLists
    /\ tools \in ToolSets
    /\ raResp = NoResponse
    /\ clResp = NoResponse
    /\ ihResp = NoResponse
    /\ ihCalls = <<>>

InitResolution ==
    /\ entry = "Resolution"
    /\ pc = "ih_lookup"
    /\ handler = "interruption"
    /\ toolNames = <<>>
    /\ tools \in {{}, {"askQuestion"}}
    /\ raResp = NoResponse
    /\ clResp = NoResponse
    /\ ihResp \in Responses(0, <<>>)
    /\ ihCalls = <<[arg |-> ihResp, cancelled |-> cancelled, asks |-> 0,
                     gens |-> 0, ret |-> NotReturned, asksAtRet |-> 0,
                     gensAtRet |-> 0]>>

InitCompletion ==
    /\ entry = "Completion"
    /\ pc = "cl_lookup"
    /\ handler = "conversation"
    /\ toolNames = <<>>
    /\ tools \in {{}, {"askQuestion"}}
    /\ raResp = NoResponse
    /\ clResp \in Responses(0, <<>>)
    /\ ihResp = NoResponse
    /\ ihCalls = <<>>

Init ==
    /\ InitCommon
    /\ NoConsole
    /\ (InitRunAgent \/ InitResolution \/ InitCompletion)

----------------------------------------------------------------------------
(* The context: cancellation can arrive at any moment.                     *)

Cancel ==
    /\ ~cancelled
    /\ pc # "done"
    /\ cancelled' = TRUE
    /\ UNCHANGED <<pc, entry, handler, toolNames, tools, raResp, clResp,
                   ihResp, answers, idx, raRet, clRet, ihRet, genCalls,
                   askCalls, boolCalls, ihCalls>>
    /\ UNCHANGED terminalVars

----------------------------------------------------------------------------
(* InterruptionHandler.handleResponse                                      *)

\* One call of InterruptionHandler.handleResponse as it starts, with the state
\* of the context and the number of collaborator calls made before it.
IhCall(arg, gens) ==
    [arg |-> arg, cancelled |-> cancelled, asks |-> Len(askCalls),
     gens |-> gens, ret |-> NotReturned, asksAtRet |-> 0, gensAtRet |-> 0]

IhLogReturn(resp, err, asks, gens) ==
    [ihCalls EXCEPT ![Len(ihCalls)].ret = Returned(resp, err),
                    ![Len(ihCalls)].asksAtRet = asks,
                    ![Len(ihCalls)].gensAtRet = gens]

\* return resp, err
IhExitAt(resp, err, gens) ==
    /\ IhReturn(resp, err)
    /\ ihCalls' = IhLogReturn(resp, err, Len(askCalls), gens)

IhExit(resp, err) == IhExitAt(resp, err, Len(genCalls))

\* askQuestion := ih.generator.LookupTool("askQuestion")
IhLookup ==
    /\ pc = "ih_lookup"
    /\ IF LookupTool("askQuestion")
       THEN /\ pc' = "ih_loop"
            /\ UNCHANGED <<ihRet, ihCalls>>
       ELSE IhExit(NoResponse, ToolNotFound("askQuestion"))
    /\ UNCHANGED <<entry, handler, toolNames, tools, cancelled, raResp,
                   clResp, ihResp, answers, idx, raRet, clRet, genCalls,
                   askCalls, boolCalls>>
    /\ UNCHANGED terminalVars

\* Mutant: the loop runs while the response carries Pending Requests, whatever
\* its finish reason.
IhLoopCondHasInterrupts(r) ==
    r.FinishReason = "interrupted" /\ Len(r.interrupts) > 0

\* for response.FinishReason == "interrupted"
IhLoopCond(r) == r.FinishReason = "interrupted"

\* Mutant: the cancellation check comes before the loop condition.
IhLoopChecksCtxFirst ==
    /\ pc = "ih_loop"
    /\ IF cancelled
       THEN /\ IhExit(NoResponse, CtxErr)
            /\ UNCHANGED <<answers, idx>>
       ELSE IF ~IhLoopCond(ihResp)
       THEN /\ IhExit(ihResp, Nil)
            /\ UNCHANGED <<answers, idx>>
       ELSE /\ pc' = "ih_part"
            /\ answers' = <<>>
            /\ idx' = 1
            /\ UNCHANGED <<ihRet, ihCalls>>
    /\ UNCHANGED <<entry, handler, toolNames, tools, cancelled, raResp,
                   clResp, ihResp, raRet, clRet, genCalls, askCalls,
                   boolCalls>>
    /\ UNCHANGED terminalVars

\* Mutant: no cancellation check at the head of the outer loop.
IhLoopNoCtxCheck ==
    /\ pc = "ih_loop"
    /\ IF ~IhLoopCond(ihResp)
       THEN /\ IhExit(ihResp, Nil)
            /\ UNCHANGED <<answers, idx>>
       ELSE /\ pc' = "ih_part"
            /\ answers' = <<>>
            /\ idx' = 1
            /\ UNCHANGED <<ihRet, ihCalls>>
    /\ UNCHANGED <<entry, handler, toolNames, tools, cancelled, raResp,
                   clResp, ihResp, raRet, clRet, genCalls, askCalls,
                   boolCalls>>
    /\ UNCHANGED terminalVars

\* Mutant: on a cancelled context the loop goes round again instead of
\* returning.
IhLoopSpinsWhenCancelled ==
    /\ pc = "ih_loop"
    /\ IF ~IhLoopCond(ihResp)
       THEN /\ IhExit(ihResp, Nil)
            /\ UNCHANGED <<answers, idx>>
       ELSE IF cancelled
       THEN UNCHANGED <<pc, ihRet, ihCalls, answers, idx>>
       ELSE /\ pc' = "ih_part"
            /\ answers' = <<>>
            /\ idx' = 1
            /\ UNCHANGED <<ihRet, ihCalls>>
    /\ UNCHANGED <<entry, handler, toolNames, tools, cancelled, raResp,
                   clResp, ihResp, raRet, clRet, genCalls, askCalls,
                   boolCalls>>
    /\ UNCHANGED terminalVars

\* The head of the outer loop: the loop condition, the cancellation check and
\* var answers []*ai.Part.
IhLoop ==
    /\ pc = "ih_loop"
    /\ IF ~IhLoopCond(ihResp)
       THEN /\ IhExit(ihResp, Nil)
            /\ UNCHANGED <<answers, idx>>
       ELSE IF cancelled
       THEN /\ IhExit(NoResponse, CtxErr)
            /\ UNCHANGED <<answers, idx>>
       ELSE /\ pc' = "ih_part"
            /\ answers' = <<>>
            /\ idx' = 1
            /\ UNCHANGED <<ihRet, ihCalls>>
    /\ UNCHANGED <<entry, handler, toolNames, tools, cancelled, raResp,
                   clResp, ihResp, raRet, clRet, genCalls, askCalls,
                   boolCalls>>
    /\ UNCHANGED terminalVars

\* One UserInteraction call as it starts.
AskCall(by, resp, part, input) ==
    [by |-> by, resp |-> resp.id, part |-> part, input |-> input,
     cancelled |-> cancelled, returned |-> FALSE, answer |-> "", err |-> Nil]

AskReturned(answer, err) ==
    [askCalls EXCEPT ![Len(askCalls)].returned = TRUE,
                     ![Len(askCalls)].answer = answer,
                     ![Len(askCalls)].err = err]

\* Mutant: the UserInteraction call is started without waiting for it, and the
\* range loop moves on to the next request.
IhPartFanOut ==
    /\ pc = "ih_part"
    /\ idx <= Len(Interrupts(ihResp))
    /\ LET part == Interrupts(ihResp)[idx]
           decoded == getQuestionInput(part.input)
       IN  IF cancelled
           THEN /\ IhExit(NoResponse, CtxErr)
                /\ UNCHANGED <<askCalls, idx>>
           ELSE IF decoded.err # Nil
           THEN /\ IhExit(NoResponse, decoded.err)
                /\ UNCHANGED <<askCalls, idx>>
           ELSE /\ pc' = "ih_part"
                /\ idx' = idx + 1
                /\ askCalls' = Append(askCalls,
                       AskCall("Resolution", ihResp, part, decoded.value))
                /\ UNCHANGED <<ihRet, ihCalls>>
    /\ UNCHANGED <<entry, handler, toolNames, tools, cancelled, raResp,
                   clResp, ihResp, answers, raRet, clRet, genCalls,
                   boolCalls>>
    /\ UNCHANGED terminalVars

\* Mutant: no cancellation check before a Pending Request is handled.
IhPartNoCtxCheck ==
    /\ pc = "ih_part"
    /\ idx <= Len(Interrupts(ihResp))
    /\ LET part == Interrupts(ihResp)[idx]
           decoded == getQuestionInput(part.input)
       IN  IF decoded.err # Nil
           THEN /\ IhExit(NoResponse, decoded.err)
                /\ UNCHANGED askCalls
           ELSE /\ pc' = "ih_asking"
                /\ askCalls' = Append(askCalls,
                       AskCall("Resolution", ihResp, part, decoded.value))
                /\ UNCHANGED <<ihRet, ihCalls>>
    /\ UNCHANGED <<entry, handler, toolNames, tools, cancelled, raResp,
                   clResp, ihResp, answers, idx, raRet, clRet, genCalls,
                   boolCalls>>
    /\ UNCHANGED terminalVars

\* The body of the range loop up to the UserInteraction call: the cancellation
\* check, the decoding of the payload and the start of the call.
IhPart ==
    /\ pc = "ih_part"
    /\ idx <= Len(Interrupts(ihResp))
    /\ LET part == Interrupts(ihResp)[idx]
           decoded == getQuestionInput(part.input)
       IN  IF cancelled
           THEN /\ IhExit(NoResponse, CtxErr)
                /\ UNCHANGED askCalls
           ELSE IF decoded.err # Nil
           THEN /\ IhExit(NoResponse, decoded.err)
                /\ UNCHANGED askCalls
           ELSE /\ pc' = "ih_asking"
                /\ askCalls' = Append(askCalls,
                       AskCall("Resolution", ihResp, part, decoded.value))
                /\ UNCHANGED <<ihRet, ihCalls>>
    /\ UNCHANGED <<entry, handler, toolNames, tools, cancelled, raResp,
                   clResp, ihResp, answers, idx, raRet, clRet, genCalls,
                   boolCalls>>
    /\ UNCHANGED terminalVars

\* Mutant: the answer replaces the answers collected so far.
AppendAnswerOverwrites(as, part, answer) == <<Respond(part, answer)>>

\* answers = append(answers, askQuestion.Respond(part, any(answer), nil))
AppendAnswer(as, part, answer) == Append(as, Respond(part, answer))

\* The UserInteraction call returns an answer: it is appended and the range
\* loop moves on.
IhAnswer ==
    /\ pc = "ih_asking"
    /\ \E a \in Answers(askCalls[Len(askCalls)].input) :
        /\ askCalls' = AskReturned(a, Nil)
        /\ answers' = AppendAnswer(answers, Interrupts(ihResp)[idx], a)
    /\ idx' = idx + 1
    /\ pc' = "ih_part"
    /\ UNCHANGED <<entry, handler, toolNames, tools, cancelled, raResp,
                   clResp, ihResp, raRet, clRet, ihRet, genCalls, boolCalls,
                   ihCalls>>
    /\ UNCHANGED terminalVars

\* Mutant: a failed UserInteraction call is skipped and the range loop moves
\* on.
IhAskFailsContinues ==
    /\ pc = "ih_asking"
    /\ \E e \in InteractionErrors : askCalls' = AskReturned("", e)
    /\ idx' = idx + 1
    /\ pc' = "ih_part"
    /\ UNCHANGED <<entry, handler, toolNames, tools, cancelled, raResp,
                   clResp, ihResp, answers, raRet, clRet, ihRet, genCalls,
                   boolCalls, ihCalls>>
    /\ UNCHANGED terminalVars

\* The UserInteraction call fails: return nil, err
IhAskFails ==
    /\ pc = "ih_asking"
    /\ \E e \in InteractionErrors :
        /\ askCalls' = AskReturned("", e)
        /\ IhExit(NoResponse, e)
    /\ UNCHANGED <<entry, handler, toolNames, tools, cancelled, raResp,
                   clResp, ihResp, answers, idx, raRet, clRet, genCalls,
                   boolCalls>>
    /\ UNCHANGED terminalVars

\* The resumption call of a round.
ResumeCall(r, as) ==
    GenerateCall("Resolution", History(r), {"askQuestion"}, as, NoPrompt, "")

\* Mutant: a failed resumption call is issued again.
IhGenerateRetries ==
    /\ pc = "ih_part"
    /\ idx > Len(Interrupts(ihResp))
    /\ Len(genCalls) < MaxGen
    /\ LET call == ResumeCall(ihResp, answers)
       IN  \E out \in GenerateOutcomes(call) :
            /\ genCalls' = Logged(call, out)
            /\ IF out.err # Nil
               THEN UNCHANGED <<pc, ihResp, ihRet, ihCalls>>
               ELSE /\ ihResp' = out.resp
                    /\ pc' = "ih_loop"
                    /\ UNCHANGED <<ihRet, ihCalls>>
    /\ UNCHANGED <<entry, handler, toolNames, tools, cancelled, raResp,
                   clResp, answers, idx, raRet, clRet, askCalls, boolCalls>>
    /\ UNCHANGED terminalVars

\* Mutant: with no answers to send the loop returns the response it holds
\* instead of resuming it.
IhGenerateSkipsEmpty ==
    /\ pc = "ih_part"
    /\ idx > Len(Interrupts(ihResp))
    /\ IF answers = <<>>
       THEN /\ IhExit(ihResp, Nil)
            /\ UNCHANGED <<genCalls, ihResp>>
       ELSE /\ Len(genCalls) < MaxGen
            /\ LET call == ResumeCall(ihResp, answers)
               IN  \E out \in GenerateOutcomes(call) :
                    /\ genCalls' = Logged(call, out)
                    /\ IF out.err # Nil
                       THEN /\ IhExitAt(NoResponse, out.err, Len(genCalls) + 1)
                            /\ UNCHANGED ihResp
                       ELSE /\ ihResp' = out.resp
                            /\ pc' = "ih_loop"
                            /\ UNCHANGED <<ihRet, ihCalls>>
    /\ UNCHANGED <<entry, handler, toolNames, tools, cancelled, raResp,
                   clResp, answers, idx, raRet, clRet, askCalls, boolCalls>>
    /\ UNCHANGED terminalVars

\* After the range loop: response, err = ih.generator.Generate(...)
IhGenerate ==
    /\ pc = "ih_part"
    /\ idx > Len(Interrupts(ihResp))
    /\ Len(genCalls) < MaxGen
    /\ LET call == ResumeCall(ihResp, answers)
       IN  \E out \in GenerateOutcomes(call) :
            /\ genCalls' = Logged(call, out)
            /\ IF out.err # Nil
               THEN /\ IhExitAt(NoResponse, out.err, Len(genCalls) + 1)
                    /\ UNCHANGED ihResp
               ELSE /\ ihResp' = out.resp
                    /\ pc' = "ih_loop"
                    /\ UNCHANGED <<ihRet, ihCalls>>
    /\ UNCHANGED <<entry, handler, toolNames, tools, cancelled, raResp,
                   clResp, answers, idx, raRet, clRet, askCalls, boolCalls>>
    /\ UNCHANGED terminalVars

----------------------------------------------------------------------------
(* ConversationLoopHandler.handleResponse                                  *)

\* Mutant: the Completion Loop does not look the tool up before looping.
ClLookupNoCheck ==
    /\ pc = "cl_lookup"
    /\ pc' = "cl_loop"
    /\ UNCHANGED <<entry, handler, toolNames, tools, cancelled, raResp,
                   clResp, ihResp, answers, idx, raRet, clRet, ihRet,
                   genCalls, askCalls, boolCalls, ihCalls>>
    /\ UNCHANGED terminalVars

\* askQuestion := cv.generator.LookupTool("askQuestion")
ClLookup ==
    /\ pc = "cl_lookup"
    /\ IF LookupTool("askQuestion")
       THEN /\ pc' = "cl_loop"
            /\ UNCHANGED clRet
       ELSE ClReturn(NoResponse, ToolNotFound("askQuestion"))
    /\ UNCHANGED <<entry, handler, toolNames, tools, cancelled, raResp,
                   clResp, ihResp, answers, idx, raRet, ihRet, genCalls,
                   askCalls, boolCalls, ihCalls>>
    /\ UNCHANGED terminalVars

\* for hasMoreQuestions { response, err = cv.interruptionHandler.handleResponse(ctx, response)
ClLoop ==
    /\ pc = "cl_loop"
    /\ ihResp' = clResp
    /\ ihRet' = NotReturned
    /\ ihCalls' = Append(ihCalls, IhCall(clResp, Len(genCalls)))
    /\ pc' = "ih_lookup"
    /\ UNCHANGED <<entry, handler, toolNames, tools, cancelled, raResp,
                   clResp, answers, idx, raRet, clRet, genCalls, askCalls,
                   boolCalls>>
    /\ UNCHANGED terminalVars

\* Mutant: the result of the inner handler is assigned to a variable that
\* shadows response.
ClAfterIhShadows ==
    /\ pc = "cl_after_ih"
    /\ IF ihRet.err # Nil
       THEN ClReturn(NoResponse, ihRet.err)
       ELSE /\ pc' = "cl_bool"
            /\ UNCHANGED clRet
    /\ UNCHANGED <<entry, handler, toolNames, tools, cancelled, raResp,
                   clResp, ihResp, answers, idx, raRet, ihRet, genCalls,
                   askCalls, boolCalls, ihCalls>>
    /\ UNCHANGED terminalVars

\* The inner handler has returned: if err != nil { return nil, err }
ClAfterIh ==
    /\ pc = "cl_after_ih"
    /\ IF ihRet.err # Nil
       THEN /\ ClReturn(NoResponse, ihRet.err)
            /\ UNCHANGED clResp
       ELSE /\ clResp' = ihRet.resp
            /\ pc' = "cl_bool"
            /\ UNCHANGED clRet
    /\ UNCHANGED <<entry, handler, toolNames, tools, cancelled, raResp,
                   ihResp, answers, idx, raRet, ihRet, genCalls, askCalls,
                   boolCalls, ihCalls>>
    /\ UNCHANGED terminalVars

\* One GenerateBool call with its outcome.
BoolCall(r, verdict, err) ==
    [prompt |-> validationPrompt, history |-> History(r), resp |-> r.id,
     asked |-> Len(askCalls), gens |-> Len(genCalls), verdict |-> verdict,
     err |-> err]

NoPart == Part(0, NotAMap)

\* GenerateBool fails: return nil, err
ClBoolFails ==
    /\ pc = "cl_bool"
    /\ \E e \in GenerateErrors :
        /\ boolCalls' = Append(boolCalls, BoolCall(clResp, FALSE, e))
        /\ ClReturn(NoResponse, e)
    /\ UNCHANGED <<entry, handler, toolNames, tools, cancelled, raResp,
                   clResp, ihResp, answers, idx, raRet, ihRet, genCalls,
                   askCalls, ihCalls>>
    /\ UNCHANGED terminalVars

\* Mutant: the verdict is negated twice, so that a finished conversation goes
\* on like an unfinished one.
ClFinishedContinues ==
    /\ pc = "cl_bool"
    /\ boolCalls' = Append(boolCalls, BoolCall(clResp, TRUE, Nil))
    /\ askCalls' = Append(askCalls,
           AskCall("Completion", clResp, NoPart,
                   QuestionInput(Text(clResp), <<>>)))
    /\ pc' = "cl_asking"
    /\ UNCHANGED <<entry, handler, toolNames, tools, cancelled, raResp,
                   clResp, ihResp, answers, idx, raRet, clRet, ihRet,
                   genCalls, ihCalls>>
    /\ UNCHANGED terminalVars

\* GenerateBool says the conversation is finished: the loop ends and
\* return response, nil
ClFinished ==
    /\ pc = "cl_bool"
    /\ boolCalls' = Append(boolCalls, BoolCall(clResp, TRUE, Nil))
    /\ ClReturn(clResp, Nil)
    /\ UNCHANGED <<entry, handler, toolNames, tools, cancelled, raResp,
                   clResp, ihResp, answers, idx, raRet, ihRet, genCalls,
                   askCalls, ihCalls>>
    /\ UNCHANGED terminalVars

\* Mutant: the loop gives up after its second round and returns the response
\* it holds.
ClNotFinishedCapped ==
    /\ pc = "cl_bool"
    /\ boolCalls' = Append(boolCalls, BoolCall(clResp, FALSE, Nil))
    /\ IF boolCalls # <<>>
       THEN /\ ClReturn(clResp, Nil)
            /\ UNCHANGED askCalls
       ELSE /\ askCalls' = Append(askCalls,
                   AskCall("Completion", clResp, NoPart,
                           QuestionInput(Text(clResp), <<>>)))
            /\ pc' = "cl_asking"
            /\ UNCHANGED clRet
    /\ UNCHANGED <<entry, handler, toolNames, tools, cancelled, raResp,
                   clResp, ihResp, answers, idx, raRet, ihRet, genCalls,
                   ihCalls>>
    /\ UNCHANGED terminalVars

\* Mutant: the human is asked the validation prompt, with the answers yes and
\* no to choose from.
ClNotFinishedAsksPrompt ==
    /\ pc = "cl_bool"
    /\ boolCalls' = Append(boolCalls, BoolCall(clResp, FALSE, Nil))
    /\ askCalls' = Append(askCalls,
           AskCall("Completion", clResp, NoPart,
                   QuestionInput(validationPrompt, <<"yes", "no">>)))
    /\ pc' = "cl_asking"
    /\ UNCHANGED <<entry, handler, toolNames, tools, cancelled, raResp,
                   clResp, ihResp, answers, idx, raRet, clRet, ihRet,
                   genCalls, ihCalls>>
    /\ UNCHANGED terminalVars

\* GenerateBool says it is not finished: the arguments of Generate are
\* evaluated, the last of them the UserInteraction call.
ClNotFinished ==
    /\ pc = "cl_bool"
    /\ boolCalls' = Append(boolCalls, BoolCall(clResp, FALSE, Nil))
    /\ askCalls' = Append(askCalls,
           AskCall("Completion", clResp, NoPart,
                   QuestionInput(Text(clResp), <<>>)))
    /\ pc' = "cl_asking"
    /\ UNCHANGED <<entry, handler, toolNames, tools, cancelled, raResp,
                   clResp, ihResp, answers, idx, raRet, clRet, ihRet,
                   genCalls, ihCalls>>
    /\ UNCHANGED terminalVars

\* The UserInteraction call returns (answer, err); both values go to
\* ai.WithPrompt, the error is not looked at.
ClAsked ==
    /\ pc = "cl_asking"
    /\ \/ \E a \in Answers(askCalls[Len(askCalls)].input) :
            askCalls' = AskReturned(a, Nil)
       \/ \E e \in InteractionErrors : askCalls' = AskReturned("", e)
    /\ pc' = "cl_generate"
    /\ UNCHANGED <<entry, handler, toolNames, tools, cancelled, raResp,
                   clResp, ihResp, answers, idx, raRet, clRet, ihRet,
                   genCalls, boolCalls, ihCalls>>
    /\ UNCHANGED terminalVars

\* Mutant: the prompt of the follow-up call is the text of the response.
FollowUpCallSeedsText(r, ask) ==
    GenerateCall("Completion", History(r), {"askQuestion"}, <<>>,
                 WithPrompt(Text(r), <<>>), "")

\* The follow-up call of a round.
FollowUpCall(r, ask) ==
    GenerateCall("Completion", History(r), {"askQuestion"}, <<>>,
                 WithPrompt(ask.answer, <<ask.err>>), "")

\* Mutant: the response of the follow-up call goes straight to the verdict,
\* the inner handler being called once before the loop.
ClGenerateSkipsResolution ==
    /\ pc = "cl_generate"
    /\ Len(genCalls) < MaxGen
    /\ LET call == FollowUpCall(clResp, askCalls[Len(askCalls)])
       IN  \E out \in GenerateOutcomes(call) :
            /\ genCalls' = Logged(call, out)
            /\ IF out.err # Nil
               THEN /\ ClReturn(NoResponse, out.err)
                    /\ UNCHANGED clResp
               ELSE /\ clResp' = out.resp
                    /\ pc' = "cl_bool"
                    /\ UNCHANGED clRet
    /\ UNCHANGED <<entry, handler, toolNames, tools, cancelled, raResp,
                   ihResp, answers, idx, raRet, ihRet, askCalls, boolCalls,
                   ihCalls>>
    /\ UNCHANGED terminalVars

\* response, err = cv.generator.Generate(...)
ClGenerate ==
    /\ pc = "cl_generate"
    /\ Len(genCalls) < MaxGen
    /\ LET call == FollowUpCall(clResp, askCalls[Len(askCalls)])
       IN  \E out \in GenerateOutcomes(call) :
            /\ genCalls' = Logged(call, out)
            /\ IF out.err # Nil
               THEN /\ ClReturn(NoResponse, out.err)
                    /\ UNCHANGED clResp
               ELSE /\ clResp' = out.resp
                    /\ pc' = "cl_loop"
                    /\ UNCHANGED clRet
    /\ UNCHANGED <<entry, handler, toolNames, tools, cancelled, raResp,
                   ihResp, answers, idx, raRet, ihRet, askCalls, boolCalls,
                   ihCalls>>
    /\ UNCHANGED terminalVars

----------------------------------------------------------------------------
(* RunAgent                                                                *)

\* The tool names of the list that the Generator cannot resolve.
Missing == {i \in 1..Len(toolNames) : ~LookupTool(toolNames[i])}
FirstMissing == CHOOSE i \in Missing : \A j \in Missing : i <= j

\* Mutant: RunAgent does not check the result of LookupTool.
RaStartNoCheck ==
    /\ pc = "ra_start"
    /\ pc' = "ra_generate"
    /\ UNCHANGED <<entry, handler, toolNames, tools, cancelled, raResp,
                   clResp, ihResp, answers, idx, raRet, clRet, ihRet,
                   genCalls, askCalls, boolCalls, ihCalls>>
    /\ UNCHANGED terminalVars

\* for _, toolName := range options.toolNames { ... }
RaStart ==
    /\ pc = "ra_start"
    /\ IF Missing # {}
       THEN RaReturn("", ToolNotFound(toolNames[FirstMissing]))
       ELSE /\ pc' = "ra_generate"
            /\ UNCHANGED raRet
    /\ UNCHANGED <<entry, handler, toolNames, tools, cancelled, raResp,
                   clResp, ihResp, answers, idx, clRet, ihRet, genCalls,
                   askCalls, boolCalls, ihCalls>>
    /\ UNCHANGED terminalVars

\* The initial call of a dialog.
InitialCall ==
    GenerateCall("RunAgent", <<>>,
                 {toolNames[i] : i \in 1..Len(toolNames)}, <<>>,
                 WithPrompt(userPrompt, <<>>), systemPrompt)

\* response, err := options.generator.Generate(...), and what follows it up to
\* the call of the response handler.
RaGenerate ==
    /\ pc = "ra_generate"
    /\ Len(genCalls) < MaxGen
    /\ \E out \in GenerateOutcomes(InitialCall) :
        /\ genCalls' = Logged(InitialCall, out)
        /\ IF out.err # Nil
           THEN /\ RaReturn("", out.err)
                /\ UNCHANGED <<raResp, clResp, ihResp, ihCalls>>
           ELSE /\ raResp' = out.resp
                /\ IF handler = "none"
                   THEN /\ RaReturn(Text(out.resp), Nil)
                        /\ UNCHANGED <<clResp, ihResp, ihCalls>>
                   ELSE IF handler = "interruption"
                   THEN /\ ihResp' = out.resp
                        /\ ihCalls' = Append(ihCalls,
                               IhCall(out.resp, Len(genCalls) + 1))
                        /\ pc' = "ih_lookup"
                        /\ UNCHANGED <<raRet, clResp>>
                   ELSE /\ clResp' = out.resp
                        /\ pc' = "cl_lookup"
                        /\ UNCHANGED <<raRet, ihResp, ihCalls>>
    /\ UNCHANGED <<entry, handler, toolNames, tools, cancelled, answers, idx,
                   clRet, ihRet, askCalls, boolCalls>>
    /\ UNCHANGED terminalVars

\* The value the response handler returned to RunAgent.
HandlerRet == IF handler = "interruption" THEN ihRet ELSE clRet

\* Mutant: when the response handler fails, RunAgent returns the text of the
\* response it had.
RaAfterHandlerIgnoresErr ==
    /\ pc = "ra_after_handler"
    /\ IF HandlerRet.err # Nil
       THEN /\ RaReturn(Text(raResp), Nil)
            /\ UNCHANGED raResp
       ELSE /\ RaReturn(Text(HandlerRet.resp), Nil)
            /\ raResp' = HandlerRet.resp
    /\ UNCHANGED <<entry, handler, toolNames, tools, cancelled, clResp,
                   ihResp, answers, idx, clRet, ihRet, genCalls, askCalls,
                   boolCalls, ihCalls>>
    /\ UNCHANGED terminalVars

\* response, err = options.responseHandler.handleResponse(ctx, response) has
\* returned.
RaAfterHandler ==
    /\ pc = "ra_after_handler"
    /\ IF HandlerRet.err # Nil
       THEN /\ RaReturn("", HandlerRet.err)
            /\ UNCHANGED raResp
       ELSE /\ RaReturn(Text(HandlerRet.resp), Nil)
            /\ raResp' = HandlerRet.resp
    /\ UNCHANGED <<entry, handler, toolNames, tools, cancelled, clResp,
                   ihResp, answers, idx, clRet, ihRet, genCalls, askCalls,
                   boolCalls, ihCalls>>
    /\ UNCHANGED terminalVars

----------------------------------------------------------------------------

Next ==
    \/ Cancel
    \/ IhLookup \/ IhLoop \/ IhPart \/ IhAnswer \/ IhAskFails \/ IhGenerate
    \/ ClLookup \/ ClLoop \/ ClAfterIh \/ ClBoolFails \/ ClFinished
    \/ ClNotFinished \/ ClAsked \/ ClGenerate
    \/ RaStart \/ RaGenerate \/ RaAfterHandler

Spec == Init /\ [][Next]_vars

----------------------------------------------------------------------------
(* The Resolution Loop on the payloads a Pending Request can carry.        *)

\* The values of the two entries of a payload: a question that is a string
\* (empty or not), a number, null or absent; choices that are absent, a list
\* of strings with a repeated one, a list with a number or a null in it, or a
\* string.
PayloadQuestions == {JStr("What gender?"), JStr(""), JNum, JNull, JAbsent}
PayloadChoices ==
    {JNoList("absent"), JNoList("string"),
     JList(<<JStr("Boy"), JStr("Girl"), JStr("Boy")>>),
     JList(<<JStr("Boy"), JNum>>), JList(<<JStr("Boy"), JNull>>)}

Payloads ==
    {NotAMap} \cup {MapInput(q, c) : q \in PayloadQuestions, c \in PayloadChoices}

\* The lists of Pending Requests whose first request carries any of these
\* payloads, the others a well-formed question.
PayloadLists ==
    {[i \in 1..k |-> Part(i, IF i = 1 THEN p ELSE GoodQ(i))] :
         k \in 1..MaxInterrupts, p \in Payloads}

\* The caller invokes InterruptionHandler.handleResponse with a suspended
\* response.
InitPayload ==
    /\ InitCommon
    /\ NoConsole
    /\ ~cancelled
    /\ entry = "Resolution"
    /\ pc = "ih_lookup"
    /\ handler = "interruption"
    /\ toolNames = <<>>
    /\ tools = {"askQuestion"}
    /\ raResp = NoResponse
    /\ clResp = NoResponse
    /\ ihResp \in {Response(0, "interrupted", "", l, <<>>) : l \in PayloadLists}
    /\ ihCalls = <<[arg |-> ihResp, cancelled |-> cancelled, asks |-> 0,
                     gens |-> 0, ret |-> NotReturned, asksAtRet |-> 0,
                     gensAtRet |-> 0]>>

NextResolution ==
    \/ Cancel
    \/ IhLookup \/ IhLoop \/ IhPart \/ IhAnswer \/ IhAskFails \/ IhGenerate

SpecPayload == InitPayload /\ [][NextResolution]_vars

----------------------------------------------------------------------------
(* Each handler called on its own.                                         *)

\* The caller invokes ConversationLoopHandler.handleResponse.
InitCompletionLoop == InitCommon /\ NoConsole /\ InitCompletion

NextCompletion ==
    \/ Cancel
    \/ IhLookup \/ IhLoop \/ IhPart \/ IhAnswer \/ IhAskFails \/ IhGenerate
    \/ ClLookup \/ ClLoop \/ ClAfterIh \/ ClBoolFails \/ ClFinished
    \/ ClNotFinished \/ ClAsked \/ ClGenerate

SpecCompletion == InitCompletionLoop /\ [][NextCompletion]_vars

\* The caller invokes InterruptionHandler.handleResponse.
InitResolutionLoop == InitCommon /\ NoConsole /\ InitResolution

SpecResolution == InitResolutionLoop /\ [][NextResolution]_vars

\* The steps of the loop and the returns of the calls it waits for.
IhSteps == IhLookup \/ IhLoop \/ IhPart \/ IhAnswer \/ IhAskFails \/ IhGenerate

\* The goroutine of the loop keeps running, and every UserInteraction and
\* Generate call it makes returns; nothing obliges the context to be cancelled.
SpecResolutionLive == SpecResolution /\ WF_vars(IhSteps)

----------------------------------------------------------------------------
(* Properties.                                                             *)

AskQuestionRegistered == "askQuestion" \in tools

\* The calls of the Resolution Loop that have returned.
IhReturns == {k \in 1..Len(ihCalls) : ihCalls[k].ret.done}

\* The generation calls each loop issued.
ResumptionCalls == {n \in 1..Len(genCalls) : genCalls[n].by = "Resolution"}
FollowUpCalls == {n \in 1..Len(genCalls) : genCalls[n].by = "Completion"}

\* The response the dialog held when generation call n was issued: the result
\* of the call before it, or the response the caller handed in.
Resumed(n) == IF n = 1 THEN ihCalls[1].arg ELSE genCalls[n - 1].result

\* The number of Interaction calls made before that response was received.
AskedBefore(n) == IF n = 1 THEN 0 ELSE genCalls[n - 1].asked

\* C1: whenever the Resolution Loop returns without an error, the response
\* it returns is not suspended; otherwise it returns an error and no response.
C1_ReturnsResolvedOrError ==
    \A k \in IhReturns :
        LET ret == ihCalls[k].ret
        IN  IF ret.err = Nil
            THEN ret.resp # NoResponse /\ ret.resp.FinishReason # "interrupted"
            ELSE ret.resp = NoResponse

\* A suspended response was resumed and the loop returned the final response.
C1_Witness ==
    /\ entry = "Resolution"
    /\ ihRet.done /\ ihRet.err = Nil
    /\ ihCalls[1].arg.FinishReason = "interrupted"
    /\ Len(genCalls) = 2

\* C2: a resumption call is issued after exactly N Interaction calls for the N
\* Pending Requests of the response being resumed, and carries the History of
\* that response and exactly N Answers, the i-th built from the i-th Pending
\* Request and the result of the i-th of those Interaction calls.
C2_ResumptionCarriesAllAnswers ==
    \A n \in ResumptionCalls :
        LET call == genCalls[n]
            r == Resumed(n)
            N == Len(Interrupts(r))
            base == AskedBefore(n)
        IN  /\ r.FinishReason = "interrupted"
            /\ call.asked - base = N
            /\ call.messages = History(r)
            /\ Len(call.answers) = N
            /\ \A i \in 1..N :
                LET ask == askCalls[base + i]
                IN  /\ ask.by = "Resolution"
                    /\ ask.resp = r.id
                    /\ ask.part = Interrupts(r)[i]
                    /\ ask.input = getQuestionInput(Interrupts(r)[i].input).value
                    /\ ask.returned /\ ask.err = Nil
                    /\ call.answers[i] = Respond(Interrupts(r)[i], ask.answer)

\* The second resumption call of a dialog carries two Answers, after a first
\* round in which one Answer was collected.
C2_Witness ==
    /\ Len(genCalls) = 2
    /\ genCalls[1].by = "Resolution" /\ Len(genCalls[1].answers) = 1
    /\ genCalls[2].by = "Resolution" /\ Len(genCalls[2].answers) = 2
    /\ genCalls[2].answers[1].output # genCalls[2].answers[2].output

\* The response a record of an Interaction call names.
AskedResponse(j) ==
    IF askCalls[j].resp = 0 THEN ihCalls[1].arg
    ELSE genCalls[askCalls[j].resp].result

\* C3: the Pending Requests of a suspended response are presented one at a
\* time in the order of the response: the call for request i+1 starts only
\* after the call for request i has returned, and at most one Interaction
\* call is in progress.
C3_SequentialInOrder ==
    \A j \in 1..Len(askCalls) :
        LET ask == askCalls[j]
        IN  /\ j < Len(askCalls) => ask.returned
            /\ ask.by = "Resolution" =>
                /\ ask.part.ref \in 1..Len(Interrupts(AskedResponse(j)))
                /\ ask.part = Interrupts(AskedResponse(j))[ask.part.ref]
                /\ \/ ask.part.ref = 1
                   \/ /\ j > 1
                      /\ askCalls[j - 1].by = "Resolution"
                      /\ askCalls[j - 1].resp = ask.resp
                      /\ askCalls[j - 1].part.ref = ask.part.ref - 1
                      /\ askCalls[j - 1].returned
                      /\ askCalls[j - 1].err = Nil

\* The Interaction call for the second request of a response is in progress,
\* the call for its first request has returned.
C3_Witness ==
    /\ Len(askCalls) = 2
    /\ askCalls[1].returned /\ askCalls[1].part.ref = 1
    /\ ~askCalls[2].returned /\ askCalls[2].part.ref = 2
    /\ askCalls[1].resp = askCalls[2].resp

\* C4: with askQuestion registered, a call of the Resolution Loop with a
\* response that is not suspended returns that response and no error, and
\* makes no Interaction call and no generation call, cancelled context or not.
C4_FinishedReturnedUnchanged ==
    AskQuestionRegistered =>
        /\ \A k \in IhReturns :
            LET c == ihCalls[k]
            IN  c.arg.FinishReason # "interrupted" =>
                    /\ c.ret = Returned(c.arg, Nil)
                    /\ c.asksAtRet = c.asks
                    /\ c.gensAtRet = c.gens
        /\ (entry = "Resolution" /\ ihCalls[1].arg.FinishReason # "interrupted") =>
               /\ genCalls = <<>> /\ askCalls = <<>>
               /\ pc \in {"ih_lookup", "ih_loop", "done"}
               /\ pc = "done" => ihRet.done

\* The loop was called with a finished response and a cancelled context, and
\* has returned.
C4_Witness ==
    /\ entry = "Resolution" /\ AskQuestionRegistered
    /\ ihCalls[1].arg.FinishReason = "stop"
    /\ ihCalls[1].cancelled
    /\ ihRet.done

\* The calls of the Resolution Loop entered with a cancelled context and a
\* suspended response, that have returned.
EnteredCancelled ==
    {k \in IhReturns : ihCalls[k].cancelled
                       /\ ihCalls[k].arg.FinishReason = "interrupted"}

CancelledAtEntry(k) ==
    /\ ihCalls[k].ret = Returned(NoResponse, CtxErr)
    /\ ihCalls[k].asksAtRet = ihCalls[k].asks
    /\ ihCalls[k].gensAtRet = ihCalls[k].gens

\* C5 as stated: entered with a cancelled context and a suspended response,
\* the Resolution Loop returns the cancellation error, with no Interaction
\* call and no generation call.
C5_Original == \A k \in EnteredCancelled : CancelledAtEntry(k)

\* C5 as amended: the same, when the askQuestion capability is registered
\* (when it is not, the loop returns the capability-not-found error).
C5_CancelledAtEntry ==
    \A k \in EnteredCancelled :
        IF AskQuestionRegistered THEN CancelledAtEntry(k)
        ELSE ihCalls[k].ret = Returned(NoResponse, ToolNotFound("askQuestion"))

\* The loop was entered with a cancelled context and a suspended response that
\* carries no Pending Request, and has returned.
C5_Witness ==
    /\ AskQuestionRegistered
    /\ \E k \in EnteredCancelled : Interrupts(ihCalls[k].arg) = <<>>

\* The positions inside the loops of the two handlers, after their look-up
\* of the tool.
LoopPcs ==
    {"ih_loop", "ih_part", "ih_asking", "cl_loop", "cl_after_ih", "cl_bool",
     "cl_asking", "cl_generate"}

NotFound == Returned(NoResponse, ToolNotFound("askQuestion"))

\* C6: when the Generator cannot resolve askQuestion, the Resolution Loop and
\* the Completion Loop return the capability-not-found error for every
\* response, before any Interaction call, generation call or boolean
\* evaluation (the Completion Loop before it calls the Resolution Loop).
C6_CapabilityNotFound ==
    ~AskQuestionRegistered =>
        /\ askCalls = <<>> /\ boolCalls = <<>>
        /\ ResumptionCalls = {} /\ FollowUpCalls = {}
        /\ pc \notin LoopPcs
        /\ \A k \in IhReturns :
            /\ ihCalls[k].ret = NotFound
            /\ ihCalls[k].gensAtRet = ihCalls[k].gens
        /\ InCompletion => ihCalls = <<>>
        /\ clRet.done => clRet = NotFound
        /\ (pc = "done" /\ entry = "Resolution") => ihRet = NotFound
        /\ (pc = "done" /\ entry = "Completion") => clRet = NotFound

\* The Completion Loop was called with a suspended response while askQuestion
\* is not registered, and has returned.
C6_Witness ==
    /\ ~AskQuestionRegistered
    /\ entry = "Completion"
    /\ clResp.FinishReason = "interrupted"
    /\ clRet.done

\* The dialogs C7 is about.
C7_Case == entry = "RunAgent" /\ handler # "none" /\ ~AskQuestionRegistered

\* The capability-not-found errors.
NotFoundErrors == {ToolNotFound("askQuestion"), ToolNotFound("other")}

\* C7 as stated: a dialog started through RunAgent with a response handler
\* while askQuestion is not registered ends with the capability-not-found
\* error after zero generation calls, whatever the tool-name list.
C7_Original ==
    C7_Case =>
        /\ genCalls = <<>>
        /\ raRet.done => raRet.text = "" /\ raRet.err \in NotFoundErrors

\* The positions of the tool-name list whose name does not resolve while all
\* names before it do.
FirstUnresolved ==
    {i \in 1..Len(toolNames) :
        /\ toolNames[i] \notin tools
        /\ \A j \in 1..(i - 1) : toolNames[j] \in tools}

\* C7 as amended: when the tool-name list names a tool that does not resolve,
\* the dialog ends with the not-found error of the first such name after zero
\* generation calls. When it names none (an empty list, a list that does not
\* name askQuestion), one generation call is issued, and the dialog ends with
\* that call's error or, when it succeeds, with the askQuestion-not-found
\* error of the handler.
C7_ToolNotFound ==
    C7_Case =>
        IF FirstUnresolved # {}
        THEN /\ genCalls = <<>>
             /\ raRet.done =>
                 \E i \in FirstUnresolved :
                     raRet = RaReturned("", ToolNotFound(toolNames[i]))
        ELSE /\ Len(genCalls) <= 1
             /\ raRet.done =>
                 /\ Len(genCalls) = 1
                 /\ raRet = RaReturned("",
                        IF genCalls[1].err # Nil THEN genCalls[1].err
                        ELSE ToolNotFound("askQuestion"))

\* RunAgent has returned in a dialog whose tool-name list names askQuestion
\* after a registered tool, while askQuestion is not registered.
C7_Witness ==
    /\ C7_Case
    /\ toolNames = <<"other", "askQuestion">>
    /\ "other" \in tools
    /\ raRet.done

\* The boolean evaluations that returned "not finished".
FalseVerdicts ==
    {i \in 1..Len(boolCalls) : boolCalls[i].err = Nil /\ ~boolCalls[i].verdict}

\* The calls of the Resolution Loop that returned a response.
IhOkReturns == {k \in IhReturns : ihCalls[k].ret.err = Nil}

\* C8: the Completion Loop evaluates the boolean exactly once after each
\* successful return of the inner Resolution Loop and at no other time, over
\* the History of the response that call returned and with the validation
\* prompt; it issues one follow-up generation call after each evaluation that
\* returned false, and no other.
C8_OneVerdictPerRound ==
    IF InCompletion
    THEN /\ Len(boolCalls) = Cardinality(IhOkReturns)
                - (IF \/ pc = "cl_bool"
                      \/ pc = "cl_after_ih" /\ ihRet.err = Nil
                   THEN 1 ELSE 0)
         /\ \A i \in 1..Len(boolCalls) :
             /\ i \in IhOkReturns
             /\ boolCalls[i].prompt = validationPrompt
             /\ boolCalls[i].history = History(ihCalls[i].ret.resp)
         /\ Cardinality(FollowUpCalls) = Cardinality(FalseVerdicts)
                - (IF pc \in {"cl_asking", "cl_generate"} THEN 1 ELSE 0)
    ELSE boolCalls = <<>> /\ FollowUpCalls = {}

\* Two rounds: the first evaluation returned false and was followed by one
\* follow-up call, the second returned true.
C8_Witness ==
    /\ Len(boolCalls) = 2
    /\ ~boolCalls[1].verdict /\ boolCalls[1].err = Nil
    /\ boolCalls[2].verdict
    /\ Cardinality(FollowUpCalls) = 1
    /\ clRet.done

\* C9: the response the Completion Loop returns without error is not
\* suspended; every verdict is evaluated over a response that is not
\* suspended; a suspended response of a follow-up call is handed to the
\* Resolution Loop next.
C9_NeverEndsSuspended ==
    /\ (clRet.done /\ clRet.err = Nil) =>
           /\ clRet.resp # NoResponse
           /\ clRet.resp.FinishReason # "interrupted"
    /\ \A i \in 1..Len(boolCalls) :
           /\ ihCalls[i].ret.resp.id = boolCalls[i].resp
           /\ ihCalls[i].ret.resp.FinishReason # "interrupted"
    /\ \A n \in FollowUpCalls :
           genCalls[n].result.FinishReason = "interrupted" =>
               \/ pc = "cl_loop" /\ n = Len(genCalls)
                                 /\ clResp = genCalls[n].result
               \/ \E k \in 1..Len(ihCalls) :
                      ihCalls[k].arg = genCalls[n].result

\* The follow-up call returned a suspended response, it was resumed, and the
\* Completion Loop has returned a response.
C9_Witness ==
    /\ clRet.done /\ clRet.err = Nil
    /\ \E n \in FollowUpCalls : genCalls[n].result.FinishReason = "interrupted"

\* No response of the dialog is suspended.
NoSuspension ==
    /\ \A n \in 1..Len(genCalls) :
           genCalls[n].result.FinishReason # "interrupted"
    /\ ihCalls # <<>> => ihCalls[1].arg.FinishReason # "interrupted"

\* C10: when a boolean evaluation returns true, the Completion Loop returns
\* the response the Resolution Loop returned in that round. After k verdicts
\* false and then one true, with no suspended response, that is the response
\* of the k-th follow-up call (the input response when k = 0), after k
\* follow-up calls and k+1 evaluations; through RunAgent that makes k+1
\* generation calls, and RunAgent returns the text of that response.
C10_ReturnsRoundResponse ==
    (clRet.done /\ clRet.err = Nil) =>
        LET k == Cardinality(FalseVerdicts)
            first == IF entry = "RunAgent" THEN 1 ELSE 0
        IN  /\ boolCalls[Len(boolCalls)].verdict
            /\ clRet.resp = ihCalls[Len(ihCalls)].ret.resp
            /\ Len(boolCalls) = k + 1
            /\ \A i \in 1..k : i \in FalseVerdicts
            /\ Cardinality(FollowUpCalls) = k
            /\ NoSuspension =>
                /\ Len(genCalls) = k + first
                /\ clRet.resp = IF k + first = 0 THEN ihCalls[1].arg
                                ELSE genCalls[k + first].result
                /\ raRet.done => raRet = RaReturned(Text(clRet.resp), Nil)

\* Through RunAgent, the verdicts false and true: two generation calls, two
\* evaluations, and the text of the second response is returned.
C10_Witness ==
    /\ entry = "RunAgent" /\ raRet.done /\ raRet.err = Nil
    /\ NoSuspension
    /\ Len(genCalls) = 2 /\ Len(boolCalls) = 2
    /\ genCalls[1].result.text # genCalls[2].result.text
    /\ raRet.text = genCalls[2].result.text

----------------------------------------------------------------------------
(* The Completion Loop's rounds, failures and the final answer.            *)

\* The calls that failed.
FailedGens == {n \in 1..Len(genCalls) : genCalls[n].err # Nil}
FailedBools == {i \in 1..Len(boolCalls) : boolCalls[i].err # Nil}
FailedAsks ==
    {j \in 1..Len(askCalls) :
        /\ askCalls[j].by = "Resolution"
        /\ askCalls[j].returned
        /\ askCalls[j].err # Nil}

\* C11: the Completion Loop returns without an error only with the response
\* of a boolean evaluation that said true, nothing being called in between;
\* after a verdict of false it goes on with another round, however many rounds
\* have been made, so that with false verdicts only and no error it has not
\* returned.
C11_NoRoundCap ==
    InCompletion =>
        /\ (clRet.done /\ clRet.err = Nil) =>
               /\ boolCalls # <<>>
               /\ LET last == boolCalls[Len(boolCalls)]
                  IN  /\ last.verdict /\ last.err = Nil
                      /\ last.gens = Len(genCalls)
                      /\ last.asked = Len(askCalls)
                      /\ clRet.resp.id = last.resp
        /\ \A i \in 1..Len(boolCalls) :
               (~boolCalls[i].verdict /\ boolCalls[i].err = Nil) =>
                   /\ Len(askCalls) > boolCalls[i].asked
                   /\ askCalls[boolCalls[i].asked + 1].by = "Completion"
                   /\ i < Len(boolCalls) => boolCalls[i + 1].gens > boolCalls[i].gens

\* More rounds than generation calls may be issued have ended with a verdict
\* of false, and the loop is still running.
C11_Witness ==
    /\ entry = "Completion"
    /\ Len(boolCalls) = MaxGen + 1
    /\ \A i \in 1..Len(boolCalls) : ~boolCalls[i].verdict /\ boolCalls[i].err = Nil
    /\ ~clRet.done
    /\ pc = "cl_generate"

\* C12: when the Interaction call for a Pending Request fails, the Resolution
\* Loop returns that error and no response at once: that call is the last
\* Interaction call, and no generation call is issued after it.
C12_InteractionFailureAborts ==
    \A j \in FailedAsks :
        /\ j = Len(askCalls)
        /\ \A n \in 1..Len(genCalls) : genCalls[n].asked < j
        /\ pc \notin {"ih_loop", "ih_part", "ih_asking"}
        /\ LET call == ihCalls[Len(ihCalls)]
           IN  /\ call.ret = Returned(NoResponse, askCalls[j].err)
               /\ call.asksAtRet = j
               /\ call.gensAtRet = Len(genCalls)

\* The Interaction call for the second of two Pending Requests failed, one
\* answer being collected already.
C12_Witness ==
    /\ FailedAsks # {}
    /\ Len(Interrupts(ihResp)) = 2
    /\ askCalls[Len(askCalls)].part.ref = 2
    /\ Len(answers) = 1
    /\ ihRet.done

\* What the caller of the dialog got back is the error e and nothing else.
EndsWith(e) ==
    /\ pc \in {"cl_after_ih", "ra_after_handler", "done"}
    /\ pc = "done" =>
           CASE entry = "RunAgent" -> raRet = RaReturned("", e)
             [] entry = "Resolution" -> ihRet = Returned(NoResponse, e)
             [] OTHER -> clRet = Returned(NoResponse, e)

\* C13: a generation call or boolean evaluation that fails is the last call
\* made to any collaborator, and the dialog ends with its error and no
\* response.
C13_NoRetry ==
    /\ \A n \in FailedGens :
        /\ n = Len(genCalls)
        /\ Len(askCalls) = genCalls[n].asked
        /\ Len(boolCalls) = genCalls[n].bools
        /\ EndsWith(genCalls[n].err)
    /\ \A i \in FailedBools :
        /\ i = Len(boolCalls)
        /\ Len(askCalls) = boolCalls[i].asked
        /\ Len(genCalls) = boolCalls[i].gens
        /\ EndsWith(boolCalls[i].err)

\* A resumption call failed and RunAgent has returned its error.
C13_Witness ==
    /\ entry = "RunAgent"
    /\ raRet.done
    /\ \E n \in FailedGens : genCalls[n].by = "Resolution" /\ n = 2

C20_Original == \A n \in ResumptionCalls : ~genCalls[n].cancelled

\* The Resolution Loop is at one of its cancellation checks with a suspended
\* response.
AtCtxCheck ==
    \/ pc = "ih_loop" /\ IhLoopCond(ihResp)
    \/ pc = "ih_part" /\ idx <= Len(Interrupts(ihResp))

\* C20: a cancellation that the loop finds at the head of a round or before
\* the Interaction call of a Pending Request makes it return the cancellation
\* error and no response, with no further Interaction or generation call.
C20_CancelObservedAtChecks ==
    [][(cancelled /\ AtCtxCheck) =>
           /\ ihRet' = Returned(NoResponse, CtxErr)
           /\ askCalls' = askCalls
           /\ genCalls' = genCalls]_vars

\* The context was cancelled after the first answer of a round was collected,
\* and the loop returned the cancellation error before the second request.
C20_Witness ==
    /\ ihRet = Returned(NoResponse, CtxErr)
    /\ Len(answers) = 1
    /\ idx = 2
    /\ Len(Interrupts(ihResp)) = 2
    /\ askCalls # <<>>
    /\ ~askCalls[Len(askCalls)].cancelled
    /\ askCalls[Len(askCalls)].err = Nil

----------------------------------------------------------------------------
(* Payloads.                                                               *)

\* The payload has the expected shape: a key-value map whose question is a
\* string and whose choices, if any, are a list of strings.
Shaped(p) ==
    /\ p.map
    /\ p.question.t = "string"
    /\ \/ p.choices.t \in {"absent", "null"}
       \/ /\ p.choices.t = "list"
          /\ \A i \in 1..Len(p.choices.l) : p.choices.l[i].t = "string"

\* The Pending Requests of response r up to the i-th have the expected shape.
ShapedUpTo(r, i) == \A h \in 1..i : Shaped(Interrupts(r)[h].input)

\* C14 as stated: an Interaction call is made for a Pending Request, and a
\* resumption call issued for a response, only if that request and the ones
\* before it, or all requests of that response, have the expected shape.
C14_MalformedAborts ==
    /\ \A j \in 1..Len(askCalls) :
           askCalls[j].by = "Resolution" =>
               ShapedUpTo(AskedResponse(j), askCalls[j].part.ref)
    /\ \A n \in ResumptionCalls :
           ShapedUpTo(Resumed(n), Len(Interrupts(Resumed(n))))

\* The payload is the map {question, choices} of a string and a list of
\* strings.
QuestionAndChoices(p) ==
    /\ p.map
    /\ p.question.t = "string"
    /\ p.choices.t = "list"
    /\ \A i \in 1..Len(p.choices.l) : p.choices.l[i].t = "string"

\* The QuestionInput with the question and the choices of such a payload.
Encoded(p) ==
    QuestionInput(p.question.s,
                  [i \in 1..Len(p.choices.l) |-> p.choices.l[i].s])

----------------------------------------------------------------------------
(* The console boundary.                                                   *)

\* The Interactor calls that have returned.
TrReturns == {k \in 1..Len(trCalls) : trCalls[k].done}

C17_LosersDiscarded ==
    \A k \in TrReturns :
        LET call == trCalls[k]
        IN  /\ call.by \in {"cancel", "timeout", "input"}
            /\ call.by = "cancel" => call.Err = CtxErr /\ call.Value = <<>>
            /\ call.by = "timeout" =>
                   /\ call.Err = TimeoutErr /\ call.Value = <<>>
                   /\ call.waited = TickerSeconds
            /\ call.by = "input" =>
                   /\ call.line \in 1..Len(readLog)
                   /\ readLog[call.line].after = 0

\* C18: an answer returned without an error is a sentence that is not empty
\* and neither starts nor ends with white space; a line that is empty or
\* white space only makes the reader ask again and resolves no call.
C18_AnswersNonEmptyTrimmed ==
    /\ \A k \in TrReturns :
        LET call == trCalls[k]
        IN  call.Err = Nil =>
                /\ call.by = "input"
                /\ call.Value # <<>>
                /\ Head(call.Value) \notin WhiteSpace
                /\ call.Value[Len(call.Value)] \notin WhiteSpace
                /\ call.line \in 1..Len(readLog)
                /\ readLog[call.line].sentence = call.Value
                /\ ~readLog[call.line].again
    /\ \A i \in 1..Len(readLog) :
        /\ readLog[i].again = (~readLog[i].eof /\ readLog[i].sentence = <<>>)
        /\ readLog[i].again => \A k \in 1..Len(trCalls) : trCalls[k].line # i
        /\ (readLog[i].again /\ i = Len(readLog)) => readLoop \in {"loop", "read", "exit"}

\* A call was waiting when a blank line was read, and was answered by the
\* line after it.
C18_Witness ==
    \E k \in TrReturns :
        /\ trCalls[k].Err = Nil
        /\ trCalls[k].Value = <<"a", " ", "b">>
        /\ \E i \in 1..Len(readLog) :
            /\ i < trCalls[k].line
            /\ readLog[i].again
            /\ readLog[i].asked = k

----------------------------------------------------------------------------
(* The follow-up round of the Completion Loop.                             *)

\* The Interaction calls each loop made.
ResolutionAsks == {j \in 1..Len(askCalls) : askCalls[j].by = "Resolution"}
CompletionAsks == {j \in 1..Len(askCalls) : askCalls[j].by = "Completion"}

\* C21 as stated: a follow-up call carries the History of the response just
\* resolved and the askQuestion tool, and its prompt is the text of that
\* response.
C21_Original ==
    \A n \in FollowUpCalls :
        /\ genCalls[n].messages = History(Resumed(n))
        /\ genCalls[n].tools = {"askQuestion"}
        /\ genCalls[n].prompt.text = Text(Resumed(n))

\* C21: a follow-up call carries the History of the response just resolved,
\* the askQuestion tool and no answers; its prompt is what the Interaction
\* call of the round returned, the human's answer to the text of that response
\* with the call's error as its argument.
C21_FollowUpSeededWithAnswer ==
    \A n \in FollowUpCalls :
        LET call == genCalls[n]
            r == Resumed(n)
        IN  /\ call.messages = History(r)
            /\ call.tools = {"askQuestion"}
            /\ call.answers = <<>>
            /\ call.asked \in CompletionAsks
            /\ LET ask == askCalls[call.asked]
               IN  /\ ask.returned
                   /\ ask.input = QuestionInput(Text(r), <<>>)
                   /\ call.prompt = WithPrompt(ask.answer, <<ask.err>>)
            /\ \A m \in FollowUpCalls : m < n => genCalls[m].asked < call.asked

\* A follow-up call was issued whose prompt is the human's answer.
C21_Witness ==
    \E n \in FollowUpCalls :
        /\ genCalls[n].prompt = WithPrompt("User Answer", <<Nil>>)
        /\ Text(Resumed(n)) = TextOf(n - 1)
        /\ genCalls[n].err = Nil

\* C22 as stated: after a failed Interaction call of the Completion Loop no
\* generation call is issued, and the loop returns the error of that call.
C22_InteractionFailureReturned ==
    \A j \in CompletionAsks :
        (askCalls[j].returned /\ askCalls[j].err # Nil) =>
            /\ \A n \in 1..Len(genCalls) : genCalls[n].asked < j
            /\ clRet.done => clRet = Returned(NoResponse, askCalls[j].err)

\* The Pending Requests resolved: the Interaction call returned an answer.
ResolvedRequests ==
    {j \in ResolutionAsks : askCalls[j].returned /\ askCalls[j].err = Nil}

\* C23 as stated, the count: when the loop has returned, the number of
\* Interaction calls is the number of Pending Requests resolved plus the number
\* of verdicts of false.
C23_Original ==
    clRet.done =>
        Len(askCalls) = Cardinality(ResolvedRequests) + Cardinality(FalseVerdicts)

\* C23: a verdict of true is followed by no Interaction call; a verdict of
\* false is followed by one Interaction call of the Completion Loop, asking
\* the text of the response the verdict was about with no choices, and the
\* follow-up call is issued after that call and no other. The Interaction
\* calls are those of the Resolution Loop, one for each Pending Request
\* presented, and one for each verdict of false; when the loop returns a
\* response every Pending Request presented was resolved.
C23_OneInteractionPerFalseVerdict ==
    /\ \A i \in 1..Len(boolCalls) :
        LET b == boolCalls[i]
            a == b.asked + 1
        IN  IF b.err # Nil \/ b.verdict
            THEN i = Len(boolCalls) /\ Len(askCalls) = b.asked
            ELSE /\ a \in CompletionAsks
                 /\ askCalls[a].resp = b.resp
                 /\ askCalls[a].input =
                        QuestionInput(Text(AskedResponse(a)), <<>>)
                 /\ \A n \in FollowUpCalls :
                        genCalls[n].bools = i =>
                            /\ genCalls[n].asked = a
                            /\ askCalls[a].returned
                            /\ \A m \in FollowUpCalls :
                                   genCalls[m].bools = i => m = n
                 /\ \A n \in 1..Len(genCalls) :
                        genCalls[n].bools >= i => genCalls[n].asked >= a
                 /\ i < Len(boolCalls) => boolCalls[i + 1].asked >= a
                 /\ \A j \in CompletionAsks :
                        j > a => \E h \in FalseVerdicts : h > i /\ boolCalls[h].asked + 1 = j
    /\ Cardinality(CompletionAsks) = Cardinality(FalseVerdicts)
    /\ Len(askCalls) = Cardinality(ResolutionAsks) + Cardinality(FalseVerdicts)
    /\ (clRet.done /\ clRet.err = Nil) => ResolvedRequests = ResolutionAsks
    /\ Cardinality(ResolutionAsks \ ResolvedRequests) <= 1

\* The loop returned a response after one Pending Request was answered and
\* one verdict was false: two Interaction calls.
C23_Witness ==
    /\ clRet.done /\ clRet.err = Nil
    /\ Cardinality(ResolutionAsks) = 1
    /\ Cardinality(FalseVerdicts) = 1
    /\ Len(askCalls) = 2

----------------------------------------------------------------------------
(* Suspended responses without Pending Requests.                           *)

\* A response that is suspended and carries no Pending Request.
EmptySuspension(r) == r.FinishReason = "interrupted" /\ Interrupts(r) = <<>>

\* Every response the loop has been given so far is such a response.
OnlyEmptySuspensions ==
    /\ ihCalls # <<>>
    /\ EmptySuspension(ihCalls[1].arg)
    /\ \A n \in 1..Len(genCalls) :
           genCalls[n].err = Nil => EmptySuspension(genCalls[n].result)

\* C24: a suspended response with no Pending Request is resumed by a
\* generation call with no Answers, and no Interaction call is made between
\* receiving it and resuming it. While every response is of that kind the
\* human is never asked and the loop returns no response: it goes on resuming
\* until the context is cancelled or a generation call fails.
C24_EmptySuspensionResumedUnasked ==
    /\ \A n \in ResumptionCalls :
           EmptySuspension(Resumed(n)) =>
               /\ genCalls[n].answers = <<>>
               /\ genCalls[n].asked = AskedBefore(n)
               /\ genCalls[n].messages = History(Resumed(n))
    /\ (OnlyEmptySuspensions /\ LookupTool("askQuestion")) =>
           /\ askCalls = <<>>
           /\ genCalls # <<>> => genCalls[Len(genCalls)].by = "Resolution"
           /\ ihRet.done =>
                  /\ ihRet.resp = NoResponse
                  /\ \/ ihRet.err = CtxErr /\ cancelled
                     \/ /\ genCalls # <<>>
                        /\ ihRet.err = genCalls[Len(genCalls)].err
                        /\ ihRet.err \in GenerateErrors
           /\ pc \in {"ih_lookup", "ih_loop", "ih_part", "done"}
           /\ pc = "ih_part" => idx > Len(Interrupts(ihResp))

\* The loop has resumed such responses as often as the bound allows, the
\* human was never asked, and the loop is about to resume once more.
C24_Witness ==
    /\ OnlyEmptySuspensions
    /\ Len(genCalls) = MaxGen
    /\ \A n \in 1..Len(genCalls) :
           genCalls[n].by = "Resolution" /\ genCalls[n].err = Nil
    /\ askCalls = <<>>
    /\ ~ihRet.done
    /\ pc = "ih_part"

----------------------------------------------------------------------------
(* Termination of the Resolution Loop.                                     *)

\* The Generator has returned a suspended response to every one of the MaxGen
\* calls made: it has not produced a final response within the bound.
StillSuspendedAtBound ==
    /\ Len(genCalls) = MaxGen
    /\ \A n \in 1..Len(genCalls) :
           genCalls[n].err = Nil /\ IhLoopCond(genCalls[n].result)
    /\ pc = "ih_part"
    /\ idx > Len(Interrupts(ihResp))

\* C25: when the steps of the loop keep being taken and every call it makes
\* returns, the loop eventually returns, unless the Generator has answered
\* every generation call within the bound with a suspended response.
C25_LoopEventuallyReturns == <>(ihRet.done \/ StillSuspendedAtBound)

\* The loop returned a response after MaxGen resumptions, the human having
\* answered a Pending Request in each round.
C25_Witness ==
    /\ ihRet.done /\ ihRet.err = Nil
    /\ Len(genCalls) = MaxGen
    /\ \A n \in 1..Len(genCalls) :
           genCalls[n].by = "Resolution" /\ genCalls[n].answers # <<>>
    /\ IhLoopCond(ihCalls[1].arg)

----------------------------------------------------------------------------
(* The hand-off between readLoop and the Interactor calls.                 *)

\* The Interactor calls that received a Response from readLoop.
Delivered ==
    {k \in 1..Len(trCalls) : trCalls[k].done /\ trCalls[k].by = "input"}

\* The reads that made a Response to send: a sentence or a read error.
ToSend == {i \in 1..Len(readLog) : ~readLog[i].again}

\* The Response of read i was received by call k.
DeliveredTo(i, k) == k \in Delivered /\ trCalls[k].line = i

\* readLoop is in its send.
InSend == readLoop \in {"select", "parked"}

\* C26: a call that receives input receives what one read made (the sentence,
\* or the read error), no read is received by two calls, later calls receive
\* later reads, and a call receives the oldest read not yet received. readLoop
\* holds at most one Response not yet received, that of its latest read, and
\* reads again only after it was received; a Response is lost only when the
\* context of the reader is cancelled, and then readLoop has returned. A read
\* error is the last read readLoop makes: it is received by at most one call,
\* and readLoop returns once it was received.
C26_HandOffInOrder ==
    /\ \A k \in Delivered :
        LET i == trCalls[k].line
        IN  /\ i \in ToSend
            /\ trCalls[k].Value = readLog[i].sentence
            /\ trCalls[k].Err = IF readLog[i].eof THEN EofErr ELSE Nil
            /\ \A h \in Delivered : h < k => trCalls[h].line < i
            /\ \A j \in ToSend : j < i => \E h \in Delivered : h < k /\ trCalls[h].line = j
    /\ \A i \in ToSend :
        \/ \E k \in Delivered : trCalls[k].line = i
        \/ i = Len(readLog) /\ InSend /\ sending.line = i
        \/ i = Len(readLog) /\ readLoop = "exit" /\ readerDone
    /\ InSend <=> sending # NoInput
    /\ InSend => /\ sending.line = Len(readLog)
                 /\ ~readLog[Len(readLog)].again
                 /\ \A k \in Delivered : trCalls[k].line < sending.line
    /\ \A i \in 1..Len(readLog) :
        readLog[i].eof =>
            /\ i = Len(readLog)
            /\ InSend \/ readLoop = "exit"
            /\ (\E k \in Delivered : trCalls[k].line = i) => readLoop = "exit"

\* The first call received the first sentence read and a later call received
\* a later read.
C26_Witness ==
    /\ Len(trCalls) >= 2
    /\ DeliveredTo(1, 1) /\ trCalls[1].Err = Nil
    /\ \E k \in Delivered : k > 1 /\ trCalls[k].line > 1

====
